---------------------------- MODULE Spec2Model ----------------------------
(***************************************************************************)
(* A model of itext2bin.py: IText2Bin shells out to the llama-zip CLI,     *)
(* validates and decodes its base64 output, frames the raw bytes with a    *)
(* one-byte length header and re-encodes the frame as base64.              *)
(*                                                                         *)
(* Bytes are the integers 0..255, byte strings are sequences of bytes, a   *)
(* Python str is a sequence of code points where its content is processed  *)
(* (text, the decoded stderr) and a TLA+ string where it is only passed    *)
(* through (paths, option values, command-line words).  An optional value  *)
(* is None (the empty tuple) or Some(v) (the one-element tuple).           *)
(*                                                                         *)
(* Spec      one IText2Bin call after another, statement by statement,     *)
(*           with the child process as the environment.                    *)
(* FrameSpec the framing function and the base64 round trip applied to     *)
(*           payloads directly, as test_itext2bin.py applies them.         *)
(***************************************************************************)
EXTENDS Integers, Sequences, FiniteSets, TLC

VARIABLES
    pc,             \* the statement the call is at
    args,           \* IText2Bin's arguments: text, model_path, options
    environ,        \* os.environ.get("ITEXT2BIN_MODEL_PATH")
    options,        \* the local options after line 131
    model_path,     \* the local model_path after line 134
    exe,            \* shutil.which(llama_zip_bin)
    cmd,            \* the constructed command line
    proc,           \* the CompletedProcess of this call
    spawned,        \* child processes spawned by this call
    compressed_b64, \* what _run_llama_zip_compress_base64 returned
    payload,        \* base64.b64decode(compressed_b64, validate=True)
    framed,         \* _frame_with_1byte_len_header(payload)
    result,         \* the value returned: base64.b64encode(framed)
    decoded,        \* the test's strict decode of the encoded frame
    error           \* the exception raised to the caller

vars == <<pc, args, environ, options, model_path, exe, cmd, proc, spawned,
          compressed_b64, payload, framed, result, decoded, error>>

None == <<>>
Some(v) == <<v>>
Get(o) == o[1]

-----------------------------------------------------------------------------
(* Bounds of the model.                                                    *)

\* short payloads: every byte string over ByteAlphabet of at most this length
MaxShortLen == 3
\* long payloads reach this many bytes beyond the header's capacity
MaxOver == 2
\* the compressor's short outputs: payloads of at most this length
MaxCompressedLen == 1

-----------------------------------------------------------------------------
(* Byte strings.                                                           *)

\* the largest length the one-byte header holds
HeaderMax == 255

ByteAlphabet == {0, 120, 255}

RECURSIVE SeqsUpTo(_, _)
SeqsUpTo(S, n) ==
    IF n = 0 THEN {<<>>}
    ELSE LET shorter == SeqsUpTo(S, n - 1)
         IN  shorter \cup {Append(s, x) : s \in {t \in shorter : Len(t) = n - 1}, x \in S}

Repeat(x, n) == [i \in 1..n |-> x]

\* lengths on both sides of the header's capacity, every residue modulo 3
LongLens == (HeaderMax - 1)..(HeaderMax + MaxOver)

\* the payloads of test_itext2bin.py
TestPayloads ==
    { <<1, 2, 3, 255>>,
      Repeat(120, 255),
      Repeat(120, 256),
      <<104, 101, 108, 108, 111, 0, 119, 111, 114, 108, 100>> }

Payloads ==
    SeqsUpTo(ByteAlphabet, MaxShortLen)
        \cup {Repeat(x, n) : x \in ByteAlphabet, n \in LongLens}
        \cup TestPayloads

-----------------------------------------------------------------------------
(* base64 (the standard alphabet), as base64.b64encode and                 *)
(* base64.b64decode(..., validate=True) compute it.                        *)

PadChar == 61

B64Char(i) ==
    IF i < 26 THEN 65 + i
    ELSE IF i < 52 THEN 97 + (i - 26)
    ELSE IF i < 62 THEN 48 + (i - 52)
    ELSE IF i = 62 THEN 43 ELSE 47

\* the 6-bit value of a character, -1 for a character outside the alphabet
B64Index(c) ==
    IF c >= 65 /\ c <= 90 THEN c - 65
    ELSE IF c >= 97 /\ c <= 122 THEN c - 97 + 26
    ELSE IF c >= 48 /\ c <= 57 THEN c - 48 + 52
    ELSE IF c = 43 THEN 62
    ELSE IF c = 47 THEN 63
    ELSE -1

ByteAt(b, i) == IF i <= Len(b) THEN b[i] ELSE 0

\* the encoding without its '=' padding
b64encode_unpadded(b) ==
    [i \in 1..((4 * Len(b) + 2) \div 3) |->
        LET g  == (i - 1) \div 4
            k  == (i - 1) % 4
            b0 == ByteAt(b, 3 * g + 1)
            b1 == ByteAt(b, 3 * g + 2)
            b2 == ByteAt(b, 3 * g + 3)
        IN  CASE k = 0 -> B64Char(b0 \div 4)
              [] k = 1 -> B64Char((b0 % 4) * 16 + (b1 \div 16))
              [] k = 2 -> B64Char((b1 % 16) * 4 + (b2 \div 64))
              [] k = 3 -> B64Char(b2 % 64)]

b64encode(b) ==
    [i \in 1..(4 * ((Len(b) + 2) \div 3)) |->
        LET g  == (i - 1) \div 4
            k  == (i - 1) % 4
            b0 == ByteAt(b, 3 * g + 1)
            b1 == ByteAt(b, 3 * g + 2)
            b2 == ByteAt(b, 3 * g + 3)
        IN  CASE k = 0 -> B64Char(b0 \div 4)
              [] k = 1 -> B64Char((b0 % 4) * 16 + (b1 \div 16))
              [] k = 2 -> IF 3 * g + 2 > Len(b) THEN PadChar
                          ELSE B64Char((b1 % 16) * 4 + (b2 \div 64))
              [] k = 3 -> IF 3 * g + 3 > Len(b) THEN PadChar
                          ELSE B64Char(b2 % 64)]

\* the number of characters before the first '='
DataLen(s) ==
    IF \E i \in 1..Len(s) : s[i] = PadChar
    THEN (CHOOSE i \in 1..Len(s) : s[i] = PadChar /\ \A j \in 1..(i - 1) : s[j] # PadChar) - 1
    ELSE Len(s)

\* binascii.a2b_base64(s, strict_mode=True) of CPython 3.11 accepts s: data
\* characters only, then padding only; no leading padding; a final group of
\* two characters takes exactly "==", one of three exactly "=", one character
\* alone is an error; padding after a complete group is skipped.
b64valid(s) ==
    LET k == DataLen(s)
        m == Len(s) - k
    IN  /\ \A i \in 1..k : B64Index(s[i]) >= 0
        /\ \A i \in (k + 1)..Len(s) : s[i] = PadChar
        /\ ~(k = 0 /\ m > 0)
        /\ CASE k % 4 = 0 -> TRUE
             [] k % 4 = 1 -> FALSE
             [] k % 4 = 2 -> m = 2
             [] k % 4 = 3 -> m = 1

\* the 6-bit value at position i of a string of k data characters
SextetAt(s, k, i) == IF i <= k THEN B64Index(s[i]) ELSE 0

\* the bytes of a valid string; the unused low bits of the last group are dropped
b64bytes(s) ==
    LET k == DataLen(s)
        n == 3 * (k \div 4) + (IF k % 4 = 2 THEN 1 ELSE IF k % 4 = 3 THEN 2 ELSE 0)
    IN  [j \in 1..n |->
            LET g  == (j - 1) \div 3
                r  == (j - 1) % 3
                c0 == SextetAt(s, k, 4 * g + 1)
                c1 == SextetAt(s, k, 4 * g + 2)
                c2 == SextetAt(s, k, 4 * g + 3)
                c3 == SextetAt(s, k, 4 * g + 4)
            IN  CASE r = 0 -> c0 * 4 + (c1 \div 16)
                  [] r = 1 -> (c1 % 16) * 16 + (c2 \div 4)
                  [] r = 2 -> (c2 % 4) * 64 + c3]

\* base64.b64decode(s, validate=True): the bytes, or binascii.Error
b64decode(s) ==
    IF b64valid(s) THEN [ok |-> TRUE, value |-> b64bytes(s)]
    ELSE [ok |-> FALSE, value |-> <<>>]

-----------------------------------------------------------------------------
(* bytes.strip(), str.encode("utf-8"), bytes.decode("utf-8", "replace").   *)

\* the bytes bytes.strip() removes: \t \n \v \f \r and the space
Whitespace == {9, 10, 11, 12, 13, 32}

strip(s) ==
    LET keep == {i \in 1..Len(s) : s[i] \notin Whitespace}
    IN  IF keep = {} THEN <<>>
        ELSE SubSeq(s, CHOOSE i \in keep : \A j \in 1..(i - 1) : s[j] \in Whitespace,
                       CHOOSE i \in keep : \A j \in (i + 1)..Len(s) : s[j] \in Whitespace)

\* a lone surrogate has no UTF-8 encoding: str.encode raises UnicodeEncodeError
utf8_encodable(t) == \A i \in 1..Len(t) : t[i] < 55296 \/ t[i] > 57343

EncodeCodePoint(c) ==
    IF c < 128 THEN <<c>>
    ELSE IF c < 2048 THEN <<192 + (c \div 64), 128 + (c % 64)>>
    ELSE IF c < 65536 THEN <<224 + (c \div 4096), 128 + ((c \div 64) % 64), 128 + (c % 64)>>
    ELSE <<240 + (c \div 262144), 128 + ((c \div 4096) % 64),
           128 + ((c \div 64) % 64), 128 + (c % 64)>>

RECURSIVE utf8_encode(_)
utf8_encode(t) ==
    IF t = <<>> THEN <<>> ELSE EncodeCodePoint(Head(t)) \o utf8_encode(Tail(t))

ReplacementChar == 65533

\* decode("utf-8", "replace") of one- and two-byte sequences: a byte that
\* starts no valid sequence becomes U+FFFD and decoding goes on after it.
\* Exact for byte strings without the lead bytes 0xE0..0xF4 of longer sequences.
RECURSIVE utf8_decode_replace(_)
utf8_decode_replace(b) ==
    IF b = <<>> THEN <<>>
    ELSE IF b[1] < 128 THEN <<b[1]>> \o utf8_decode_replace(Tail(b))
    ELSE IF b[1] >= 194 /\ b[1] <= 223 /\ Len(b) >= 2 /\ b[2] >= 128 /\ b[2] <= 191
         THEN <<(b[1] - 192) * 64 + (b[2] - 128)>> \o utf8_decode_replace(Tail(Tail(b)))
    ELSE <<ReplacementChar>> \o utf8_decode_replace(Tail(b))

-----------------------------------------------------------------------------
(* The framing function.                                                   *)

\* an oversized payload is cut to the header's capacity
FrameTruncates(p) ==
    IF Len(p) > HeaderMax
    THEN [ok |-> TRUE, value |-> <<HeaderMax>> \o SubSeq(p, 1, HeaderMax)]
    ELSE [ok |-> TRUE, value |-> <<Len(p)>> \o p]

\* the length wraps into the header byte instead of being rejected
FrameWrapsLength(p) == [ok |-> TRUE, value |-> <<Len(p) % 256>> \o p]

\* the header is written after the payload
FrameHeaderLast(p) ==
    IF Len(p) > HeaderMax
    THEN [ok |-> FALSE, value |-> <<>>]
    ELSE [ok |-> TRUE, value |-> p \o <<Len(p)>>]

\* _frame_with_1byte_len_header(payload): the framed bytes, or ValueError
_frame_with_1byte_len_header(p) ==
    IF Len(p) > HeaderMax
    THEN [ok |-> FALSE, value |-> <<>>]
    ELSE [ok |-> TRUE, value |-> <<Len(p)>> \o p]

-----------------------------------------------------------------------------
(* The inputs of a call and the outcomes of the child process.             *)

\* "hi", "e" with an acute accent (two bytes in UTF-8), a lone surrogate
Texts == { <<104, 105>>, <<233>>, <<55296>> }

ModelPathArgs == { None, Some(""), Some("model-Q4_K_M.gguf") }

EnvironValues == { None, Some(""), Some("env-Q4_K_M.gguf") }

\* class LlamaZipOptions: the defaults of the dataclass
DefaultOptions ==
    [n_ctx |-> 8192, window_overlap |-> "25%", n_gpu_layers |-> -1,
     compressed_format |-> "base64"]

OptionsArgs ==
    { None,
      Some([n_ctx |-> 512, window_overlap |-> "64", n_gpu_layers |-> 0,
            compressed_format |-> "base64"]) }

WhichResults == { None, Some("/usr/local/bin/llama-zip") }

\* what the compressor writes when it compresses: the base64 of its bytes
CompressedPayloads ==
    SeqsUpTo(ByteAlphabet, MaxCompressedLen)
        \cup {Repeat(120, n) : n \in LongLens}
        \cup {<<104, 101, 108, 108, 111, 0, 119, 111, 114, 108, 100>>}

\* the whitespace around the output: none, a newline, blanks on both sides
Wrappings ==
    { <<<<>>, <<>>>>, <<<<>>, <<10>>>>, <<<<32, 9>>, <<13, 10, 11, 12>>>> }

\* outputs that are no encoder's output: "QQ=", "Q", "QQ" NL "QQ", "Q!==",
\* "=QQQ", "QQ==QQ==", "QR==" (unused bits set), "QQQQ=" (padding after a
\* complete group), blanks only, "QQ==" NUL
OddStdouts ==
    { <<81, 81, 61>>,
      <<81>>,
      <<81, 81, 10, 81, 81>>,
      <<81, 33, 61, 61>>,
      <<61, 81, 81, 81>>,
      <<81, 81, 61, 61, 81, 81, 61, 61>>,
      <<81, 82, 61, 61>>,
      <<81, 81, 81, 81, 61>>,
      <<32, 10>>,
      <<81, 81, 61, 61, 0>> }

Stdouts ==
    {w[1] \o b64encode(p) \o w[2] : p \in CompressedPayloads, w \in Wrappings}
        \cup OddStdouts

\* nothing, "err" NL, and "b" 0xFF "e-acute" 0xC3: bytes that are not UTF-8
Stderrs == { <<>>, <<101, 114, 114, 10>>, <<98, 255, 195, 169, 195>> }

\* exit statuses: success, failures, death by signal 9
FailureCodes == { 1, 2, -9 }

FailureStdouts == { <<>>, <<81, 81, 61, 61>>, <<81, 33, 61, 61>> }

ProcOutcomes ==
    [returncode : {0}, stdout : Stdouts, stderr : {<<>>, <<101, 114, 114, 10>>}]
        \cup [returncode : FailureCodes, stdout : FailureStdouts, stderr : Stderrs]

-----------------------------------------------------------------------------
(* Exceptions.                                                             *)

NoError == [kind |-> "", command |-> <<>>, exit_code |-> "", stderr |-> <<>>]

Raise(kind) == [NoError EXCEPT !.kind = kind]

\* the RuntimeError of a failed compression: its message holds the command,
\* the exit code and the decoded stderr
CompressionFailed(c, p) ==
    [kind |-> "RuntimeError", command |-> c, exit_code |-> ToString(p.returncode),
     stderr |-> utf8_decode_replace(p.stderr)]

\* `x or ""`, `not x` of an optional string
OrEmpty(o) == IF o = None THEN "" ELSE Get(o)

-----------------------------------------------------------------------------
(* One call of IText2Bin, statement by statement.                          *)

NoArgs == [text |-> <<>>, model_path |-> None, options |-> None]

Cleared ==
    /\ args = NoArgs
    /\ environ = None
    /\ options = DefaultOptions
    /\ model_path = None
    /\ exe = None
    /\ cmd = <<>>
    /\ proc = None
    /\ spawned = 0
    /\ compressed_b64 = None
    /\ payload = None
    /\ framed = None
    /\ result = None
    /\ decoded = None
    /\ error = NoError

Init == pc = "idle" /\ Cleared

\* the environment fallback wins over the explicit argument
EnterEnvironFirst ==
    /\ pc = "idle"
    /\ \E t \in Texts, mp \in ModelPathArgs, op \in OptionsArgs, env \in EnvironValues :
          /\ args' = [text |-> t, model_path |-> mp, options |-> op]
          /\ environ' = env
          /\ options' = IF op = None THEN DefaultOptions ELSE Get(op)
          /\ model_path' = IF env # None THEN env ELSE mp
    /\ pc' = "which"
    /\ UNCHANGED <<exe, cmd, proc, spawned, compressed_b64, payload, framed,
                   result, decoded, error>>

\* IText2Bin is called: the defaults of options and model_path (lines 130-134)
Enter ==
    /\ pc = "idle"
    /\ \E t \in Texts, mp \in ModelPathArgs, op \in OptionsArgs, env \in EnvironValues :
          /\ args' = [text |-> t, model_path |-> mp, options |-> op]
          /\ environ' = env
          /\ options' = IF op = None THEN DefaultOptions ELSE Get(op)
          /\ model_path' = IF mp = None THEN env ELSE mp
    /\ pc' = "which"
    /\ UNCHANGED <<exe, cmd, proc, spawned, compressed_b64, payload, framed,
                   result, decoded, error>>

\* a missing executable is not noticed
WhichUnchecked ==
    /\ pc = "which"
    /\ \E w \in WhichResults : exe' = w
    /\ pc' = "model_path"
    /\ UNCHANGED <<args, environ, options, model_path, cmd, proc, spawned,
                   compressed_b64, payload, framed, result, decoded, error>>

\* exe = shutil.which(llama_zip_bin); if not exe: raise (lines 61-66)
Which ==
    /\ pc = "which"
    /\ \E w \in WhichResults :
          /\ exe' = w
          /\ IF OrEmpty(w) = ""
             THEN pc' = "raised" /\ error' = Raise("LlamaZipNotFoundError")
             ELSE pc' = "model_path" /\ error' = error
    /\ UNCHANGED <<args, environ, options, model_path, cmd, proc, spawned,
                   compressed_b64, payload, framed, result, decoded>>

\* if not model_path: raise (lines 68-71), on IText2Bin's `model_path or ""`
CheckModelPath ==
    /\ pc = "model_path"
    /\ IF OrEmpty(model_path) = ""
       THEN pc' = "raised" /\ error' = Raise("LlamaZipModelPathError")
       ELSE pc' = "cmd" /\ error' = error
    /\ UNCHANGED <<args, environ, options, model_path, exe, cmd, proc, spawned,
                   compressed_b64, payload, framed, result, decoded>>

\* cmd = [exe, model_path, "-f", ..., "-c"] (lines 75-87)
BuildCmd ==
    /\ pc = "cmd"
    /\ cmd' = << Get(exe), OrEmpty(model_path),
                 "-f", options.compressed_format,
                 "--n-ctx", ToString(options.n_ctx),
                 "-w", options.window_overlap,
                 "--n-gpu-layers", ToString(options.n_gpu_layers),
                 "-c" >>
    /\ pc' = "run"
    /\ UNCHANGED <<args, environ, options, model_path, exe, proc, spawned,
                   compressed_b64, payload, framed, result, decoded, error>>

\* proc = subprocess.run(cmd, input=text.encode("utf-8"), ...) (lines 89-95):
\* the text is encoded before the call; the child runs to its end
Run ==
    /\ pc = "run"
    /\ IF utf8_encodable(args.text)
       THEN /\ \E o \in ProcOutcomes :
                  proc' = Some([args |-> cmd, input |-> utf8_encode(args.text),
                                returncode |-> o.returncode, stdout |-> o.stdout,
                                stderr |-> o.stderr])
            /\ spawned' = spawned + 1
            /\ pc' = "returncode"
            /\ error' = error
       ELSE /\ pc' = "raised"
            /\ error' = Raise("UnicodeEncodeError")
            /\ UNCHANGED <<proc, spawned>>
    /\ UNCHANGED <<args, environ, options, model_path, exe, cmd,
                   compressed_b64, payload, framed, result, decoded>>

\* a failed compression is run again
CheckReturnCodeRetry ==
    /\ pc = "returncode"
    /\ pc' = IF Get(proc).returncode # 0 /\ spawned < 2 THEN "run"
             ELSE IF Get(proc).returncode # 0 THEN "raised" ELSE "validate"
    /\ error' = IF Get(proc).returncode # 0 /\ spawned >= 2
                THEN CompressionFailed(cmd, Get(proc)) ELSE error
    /\ UNCHANGED <<args, environ, options, model_path, exe, cmd, proc, spawned,
                   compressed_b64, payload, framed, result, decoded>>

\* only a positive exit status counts as a failure
CheckReturnCodePositive ==
    /\ pc = "returncode"
    /\ IF Get(proc).returncode > 0
       THEN pc' = "raised" /\ error' = CompressionFailed(cmd, Get(proc))
       ELSE pc' = "validate" /\ error' = error
    /\ UNCHANGED <<args, environ, options, model_path, exe, cmd, proc, spawned,
                   compressed_b64, payload, framed, result, decoded>>

\* if proc.returncode != 0: raise RuntimeError(...) (lines 96-102)
CheckReturnCode ==
    /\ pc = "returncode"
    /\ IF Get(proc).returncode # 0
       THEN pc' = "raised" /\ error' = CompressionFailed(cmd, Get(proc))
       ELSE pc' = "validate" /\ error' = error
    /\ UNCHANGED <<args, environ, options, model_path, exe, cmd, proc, spawned,
                   compressed_b64, payload, framed, result, decoded>>

\* the output is validated and returned as captured, whitespace included
ValidateUnstripped ==
    /\ pc = "validate"
    /\ IF b64decode(strip(Get(proc).stdout)).ok
       THEN /\ compressed_b64' = Some(Get(proc).stdout)
            /\ pc' = "decode"
            /\ error' = error
       ELSE /\ pc' = "raised"
            /\ error' = Raise("binascii.Error")
            /\ UNCHANGED compressed_b64
    /\ UNCHANGED <<args, environ, options, model_path, exe, cmd, proc, spawned,
                   payload, framed, result, decoded>>

\* out = proc.stdout.strip(); base64.b64decode(out, validate=True); return out
\* (lines 104-107), bound to compressed_b64 at line 136
Validate ==
    /\ pc = "validate"
    /\ LET out == strip(Get(proc).stdout)
       IN  IF b64decode(out).ok
           THEN /\ compressed_b64' = Some(out)
                /\ pc' = "decode"
                /\ error' = error
           ELSE /\ pc' = "raised"
                /\ error' = Raise("binascii.Error")
                /\ UNCHANGED compressed_b64
    /\ UNCHANGED <<args, environ, options, model_path, exe, cmd, proc, spawned,
                   payload, framed, result, decoded>>

\* payload = base64.b64decode(compressed_b64, validate=True) (line 142)
Decode ==
    /\ pc = "decode"
    /\ LET d == b64decode(Get(compressed_b64))
       IN  IF d.ok
           THEN payload' = Some(d.value) /\ pc' = "frame" /\ error' = error
           ELSE pc' = "raised" /\ error' = Raise("binascii.Error") /\ UNCHANGED payload
    /\ UNCHANGED <<args, environ, options, model_path, exe, cmd, proc, spawned,
                   compressed_b64, framed, result, decoded>>

\* framed = _frame_with_1byte_len_header(payload) (line 143)
Frame ==
    /\ pc = "frame"
    /\ LET f == _frame_with_1byte_len_header(Get(payload))
       IN  IF f.ok
           THEN framed' = Some(f.value) /\ pc' = "encode" /\ error' = error
           ELSE pc' = "raised" /\ error' = Raise("ValueError") /\ UNCHANGED framed
    /\ UNCHANGED <<args, environ, options, model_path, exe, cmd, proc, spawned,
                   compressed_b64, payload, result, decoded>>

\* the payload is encoded without its header
EncodePayload ==
    /\ pc = "encode"
    /\ result' = Some(b64encode(Get(payload)))
    /\ pc' = "returned"
    /\ UNCHANGED <<args, environ, options, model_path, exe, cmd, proc, spawned,
                   compressed_b64, payload, framed, decoded, error>>

\* return base64.b64encode(framed) (line 144)
Encode ==
    /\ pc = "encode"
    /\ result' = Some(b64encode(Get(framed)))
    /\ pc' = "returned"
    /\ UNCHANGED <<args, environ, options, model_path, exe, cmd, proc, spawned,
                   compressed_b64, payload, framed, decoded, error>>

\* the caller has the value or the exception; nothing of the call is kept
Leave ==
    /\ pc \in {"returned", "raised"}
    /\ pc' = "idle"
    /\ args' = NoArgs
    /\ environ' = None
    /\ options' = DefaultOptions
    /\ model_path' = None
    /\ exe' = None
    /\ cmd' = <<>>
    /\ proc' = None
    /\ spawned' = 0
    /\ compressed_b64' = None
    /\ payload' = None
    /\ framed' = None
    /\ result' = None
    /\ decoded' = None
    /\ error' = NoError

Next ==
    \/ Enter
    \/ Which
    \/ CheckModelPath
    \/ BuildCmd
    \/ Run
    \/ CheckReturnCode
    \/ Validate
    \/ Decode
    \/ Frame
    \/ Encode
    \/ Leave

Spec == Init /\ [][Next]_vars

-----------------------------------------------------------------------------
(* The framing function and the round trip on payloads of the caller's     *)
(* choice, as the tests of test_itext2bin.py run them.                     *)

FrameInit ==
    /\ pc = "frame"
    /\ payload \in {Some(p) : p \in Payloads}
    /\ args = NoArgs
    /\ environ = None
    /\ options = DefaultOptions
    /\ model_path = None
    /\ exe = None
    /\ cmd = <<>>
    /\ proc = None
    /\ spawned = 0
    /\ compressed_b64 = None
    /\ framed = None
    /\ result = None
    /\ decoded = None
    /\ error = NoError

\* decoded = base64.b64decode(encoded, validate=True) (test_itext2bin.py:26)
TestDecode ==
    /\ pc = "returned"
    /\ decoded' = Some(b64decode(Get(result)))
    /\ pc' = "checked"
    /\ UNCHANGED <<args, environ, options, model_path, exe, cmd, proc, spawned,
                   compressed_b64, payload, framed, result, error>>

FrameNext ==
    \/ Frame
    \/ Encode
    \/ TestDecode

FrameSpec == FrameInit /\ [][FrameNext]_vars

-----------------------------------------------------------------------------
(* Properties.                                                             *)

Hello == <<104, 101, 108, 108, 111, 0, 119, 111, 114, 108, 100>>

\* "aGVsbG8Ad29ybGQ=", the base64 of Hello
HelloB64 == <<97, 71, 86, 115, 98, 71, 56, 65, 100, 50, 57, 121, 98, 71, 81, 61>>

\* "C2hlbGxvAHdvcmxk", the base64 of the byte 11 followed by Hello
HelloFramedB64 == <<67, 50, 104, 108, 98, 71, 120, 118, 65, 72, 100, 118, 99, 109, 120, 107>>

Ended == pc \in {"returned", "raised"}

\* the child has run and the call is past the named statements
ChildRan == proc # None
Stdout == Get(proc).stdout
ReturnCode == Get(proc).returncode

\* C1: a payload of at most 255 bytes is framed, and the frame is one byte
\* longer than the payload, starts with the payload's length and continues
\* with the payload's bytes in order (the empty payload frames to one 0 byte).
FramePrependsLength ==
    (pc # "frame" /\ payload # None /\ Len(Get(payload)) <= 255) =>
        /\ ~(pc = "raised" /\ error.kind = "ValueError")
        /\ framed # None
        /\ Len(Get(framed)) = Len(Get(payload)) + 1
        /\ Get(framed)[1] = Len(Get(payload))
        /\ \A i \in 1..Len(Get(payload)) : Get(framed)[i + 1] = Get(payload)[i]
        /\ (Get(payload) = <<>> => Get(framed) = <<0>>)

FramedTestVector ==
    /\ pc = "encode"
    /\ payload = Some(<<1, 2, 3, 255>>)
    /\ framed = Some(<<4, 1, 2, 3, 255>>)

\* C2: a payload of more than 255 bytes (256 included) raises ValueError and
\* nothing is framed or returned; a payload of exactly 255 bytes is framed
\* with the header byte 255.
FrameRejectsOversized ==
    /\ (pc # "frame" /\ payload # None /\ Len(Get(payload)) > 255) =>
          /\ pc = "raised"
          /\ error.kind = "ValueError"
          /\ framed = None
          /\ result = None
    /\ (pc # "frame" /\ payload # None /\ Len(Get(payload)) = 255) =>
          /\ pc # "raised"
          /\ framed # None
          /\ Get(framed)[1] = 255
          /\ Len(Get(framed)) = 256

Rejected256 ==
    /\ pc = "raised"
    /\ error.kind = "ValueError"
    /\ payload = Some(Repeat(120, 256))
    /\ framed = None

\* C9: the strict decode of the base64 of a frame is the frame.
FramedRoundTrip ==
    pc = "checked" =>
        /\ framed # None
        /\ decoded = Some([ok |-> TRUE, value |-> Get(framed)])

RoundTripTestVector ==
    /\ pc = "checked"
    /\ payload = Some(Hello)
    /\ Len(Get(framed)) = 12
    /\ decoded = Some([ok |-> TRUE, value |-> <<11>> \o Hello])

\* C3: when the tool is found, a model location is resolved, the child exits
\* with status 0 and its trimmed output is valid base64 of at most 255 bytes,
\* the call returns the base64 of the length byte followed by those bytes.
PipelineResult ==
    (Ended /\ exe # None /\ OrEmpty(model_path) # "" /\ ChildRan /\ ReturnCode = 0
           /\ b64valid(strip(Stdout)) /\ Len(b64bytes(strip(Stdout))) <= 255) =>
        LET raw == b64bytes(strip(Stdout))
        IN  /\ pc = "returned"
            /\ error = NoError
            /\ result = Some(b64encode(<<Len(raw)>> \o raw))

PipelineTestVector ==
    /\ pc = "returned"
    /\ Stdout = <<32, 9>> \o HelloB64 \o <<13, 10, 11, 12>>
    /\ result = Some(HelloFramedB64)

\* C4: after a nonzero exit status the call raises the RuntimeError that
\* carries the command that was run, the exit status and the decoded stderr,
\* and the output is neither validated, decoded, framed nor returned.
NonzeroExitFails ==
    (ChildRan /\ ReturnCode # 0 /\ pc # "returncode") =>
        /\ pc = "raised"
        /\ error.kind = "RuntimeError"
        /\ error.command = cmd
        /\ error.command = Get(proc).args
        /\ error.exit_code = ToString(ReturnCode)
        /\ error.stderr = utf8_decode_replace(Get(proc).stderr)
        /\ compressed_b64 = None
        /\ payload = None
        /\ framed = None
        /\ result = None

KilledWithValidOutput ==
    /\ pc = "raised"
    /\ error.kind = "RuntimeError"
    /\ error.exit_code = "-9"
    /\ Stdout = <<81, 81, 61, 61>>
    /\ error.stderr = <<98, 65533, 233, 65533>>

\* C5: when the executable is not found the call raises
\* LlamaZipNotFoundError at once, whatever its arguments, and no child is
\* spawned.
ToolNotFoundFails ==
    (pc \notin {"idle", "which"} /\ exe = None) =>
        /\ pc = "raised"
        /\ error = Raise("LlamaZipNotFoundError")
        /\ spawned = 0
        /\ proc = None
        /\ cmd = <<>>

NotFoundWithoutModel ==
    /\ pc = "raised"
    /\ error.kind = "LlamaZipNotFoundError"
    /\ args.model_path = None
    /\ environ = None
    /\ args.options # None

\* no usable model location, neither explicit nor from the environment
NoUsableModel == OrEmpty(args.model_path) = "" /\ OrEmpty(environ) = ""

\* C6 as stated: a call without a usable model location fails with the
\* missing-configuration error and spawns no child.
MissingModelIsConfigError ==
    (Ended /\ NoUsableModel) =>
        /\ pc = "raised"
        /\ error.kind = "LlamaZipModelPathError"
        /\ spawned = 0

\* C6 amended: the model location is the explicit argument when one is
\* passed and the environment value otherwise; with the tool found, an empty
\* or absent location raises LlamaZipModelPathError; without a usable
\* location no child is spawned, whether or not the tool is found.
ModelPathResolution ==
    /\ pc # "idle" =>
          model_path = IF args.model_path # None THEN args.model_path ELSE environ
    /\ cmd # <<>> => (cmd[2] # "" /\ cmd[2] = OrEmpty(model_path))
    /\ (Ended /\ exe # None /\ (NoUsableModel \/ OrEmpty(model_path) = "")) =>
          /\ pc = "raised"
          /\ error = Raise("LlamaZipModelPathError")
    /\ (NoUsableModel \/ OrEmpty(model_path) = "") => (spawned = 0 /\ proc = None)

MissingModelWithTool ==
    /\ pc = "raised"
    /\ error.kind = "LlamaZipModelPathError"
    /\ exe # None
    /\ args.model_path = None
    /\ environ = Some("")

\* C7: after exit status 0 the output is trimmed and validated: valid, the
\* trimmed output is what _run_llama_zip_compress_base64 returns; invalid,
\* the call raises binascii.Error and returns nothing.
TrimmedOutputValidated ==
    (ChildRan /\ ReturnCode = 0 /\ pc \notin {"returncode", "validate"}) =>
        IF b64valid(strip(Stdout))
        THEN /\ compressed_b64 = Some(strip(Stdout))
             /\ error.kind # "binascii.Error"
        ELSE /\ pc = "raised"
             /\ error = Raise("binascii.Error")
             /\ compressed_b64 = None
             /\ payload = None
             /\ result = None

TrimmedReturned ==
    /\ pc = "decode"
    /\ Stdout = <<32, 9>> \o HelloB64 \o <<13, 10, 11, 12>>
    /\ compressed_b64 = Some(HelloB64)

\* C8 as stated: every call spawns exactly one child process.
ExactlyOneSpawnPerCall == Ended => spawned = 1

\* C8 amended: a call spawns at most one child process: exactly one on every
\* path that reaches the exit-status check, none when the call fails before
\* (tool not found, no model location, text not encodable); a failure after
\* the child has run is raised without another run, and a returned value
\* comes from the child of this call, run on this call's command and text.
AtMostOneSpawnPerCall ==
    /\ spawned \in {0, 1}
    /\ (proc # None) <=> (spawned = 1)
    /\ pc \in {"returncode", "validate", "decode", "frame", "encode", "returned"}
          => spawned = 1
    /\ pc = "raised" =>
          (spawned = 0 <=> error.kind \in {"LlamaZipNotFoundError",
                                           "LlamaZipModelPathError",
                                           "UnicodeEncodeError"})
    /\ pc = "idle" => (proc = None /\ result = None /\ compressed_b64 = None)
    /\ pc = "returned" =>
          /\ Get(proc).args = cmd
          /\ Get(proc).input = utf8_encode(args.text)
          /\ b64decode(Get(result)).value
                = <<Len(b64bytes(strip(Stdout)))>> \o b64bytes(strip(Stdout))

FailedAfterOneSpawn ==
    /\ pc = "raised"
    /\ error.kind = "RuntimeError"
    /\ spawned = 1

\* C10: a returned value decodes to a length byte followed by that many
\* bytes, at most 255; when the compressor's output decodes to more than 255
\* bytes the call raises ValueError and returns nothing.
ReturnedIsFramed ==
    /\ pc = "returned" =>
          LET d == b64decode(Get(result))
          IN  /\ d.ok
              /\ Len(d.value) >= 1
              /\ d.value[1] = Len(d.value) - 1
              /\ Len(d.value) - 1 <= 255
    /\ (ChildRan /\ ReturnCode = 0 /\ b64valid(strip(Stdout))
          /\ Len(b64bytes(strip(Stdout))) > 255
          /\ pc \notin {"returncode", "validate", "decode", "frame"}) =>
          /\ pc = "raised"
          /\ error = Raise("ValueError")
          /\ framed = None
          /\ result = None

OversizedOutputRejected ==
    /\ pc = "raised"
    /\ error.kind = "ValueError"
    /\ Len(Get(payload)) = 256
    /\ result = None

=============================================================================
